---------------------------- MODULE Spec2Model ----------------------------
(***************************************************************************)
(* Model of updater/updater.cpp: main(), the driver that validates its     *)
(* command line, opens the OTA package, extracts and parses the edify      *)
(* script, evaluates it and reports the outcome to the parent over the     *)
(* command pipe and through its exit code.                                 *)
(*                                                                         *)
(* Strings whose characters the code inspects (argv[1], the abort message, *)
(* the text of a ui_print line) are tuples of one-character strings.  The  *)
(* command pipe is the sequence of lines written to it; a line is a record *)
(* [cmd, text] / [cmd, n] / [cmd] for the format strings of main().        *)
(* `calls' records, in order, the library calls main() has made.           *)
(***************************************************************************)
EXTENDS Integers, Sequences, FiniteSets, TLC

VARIABLES argc, version, arg4,          \* argc, argv[1], argv[4]
          pc,                           \* position in main()
          cmd_pipe, chan,               \* FILE* cmd_pipe and the lines written to it
          calls,                        \* library calls made so far, in order
          map, za,                      \* MemMapping map; ZipArchiveHandle za
          open_err, find_err, extract_err,
          error, error_count,           \* ParseString's status and error count
          registry,                     \* edify function namespaces registered
          sehandle,
          updater_info, state,          \* UpdaterInfo updater_info; State state
          status, result,               \* Evaluate's return value and result string
          exit_code, signal             \* value returned by main / signal that killed it

vars == <<argc, version, arg4, pc, cmd_pipe, chan, calls, map, za, open_err,
          find_err, extract_err, error, error_count, registry, sehandle,
          updater_info, state, status, result, exit_code, signal>>

-----------------------------------------------------------------------------
(* Bounds of the model *)

MaxArgc == 6            \* argc ranges over 1..MaxArgc
MaxLines == 2           \* an abort message has at most MaxLines lines
MaxParseErrors == 2     \* error_count ranges over 0..MaxParseErrors

-----------------------------------------------------------------------------
(* Constants of otautil/error_code.h *)

kNoError == -1
kScriptExecutionFailure == 25
kNoCause == -1
kArgsParsingFailure == 100
kPatchApplicationFailure == 115
kEioFailure == 117

NoExit == -1            \* exit_code while main() has not returned

-----------------------------------------------------------------------------
(* Strings *)

NUL == "NUL"
NL == "\n"

\* s[i] of a C string held as a tuple: the terminating '\0' follows the text
CharAt(s, i) == IF i + 1 <= Len(s) THEN s[i + 1] ELSE NUL

Digits == {"0", "1", "2", "3", "4", "5", "6", "7", "8", "9"}

DigitVal(c) ==
    CASE c = "0" -> 0 [] c = "1" -> 1 [] c = "2" -> 2 [] c = "3" -> 3
      [] c = "4" -> 4 [] c = "5" -> 5 [] c = "6" -> 6 [] c = "7" -> 7
      [] c = "8" -> 8 [] c = "9" -> 9

RECURSIVE Atoi(_, _, _)
\* atoi() on a tuple of digits: the digits from position i on, onto acc
Atoi(s, i, acc) ==
    IF CharAt(s, i) \in Digits
    THEN Atoi(s, i + 1, acc * 10 + DigitVal(CharAt(s, i)))
    ELSE acc

Count(seq, x) == Cardinality({i \in 1..Len(seq) : seq[i] = x})

Called(f) == \E i \in 1..Len(calls) : calls[i] = f

\* the literal parts of main()'s format strings
NoMessageText ==
    <<"s", "c", "r", "i", "p", "t", " ", "a", "b", "o", "r", "t", "e", "d",
      " ", "(", "n", "o", " ", "e", "r", "r", "o", "r", " ", "m", "e", "s",
      "s", "a", "g", "e", ")">>
NoFileContextsText ==
    <<"W", "a", "r", "n", "i", "n", "g", ":", " ", "N", "o", " ", "f", "i",
      "l", "e", "_", "c", "o", "n", "t", "e", "x", "t", "s">>
SucceededPrefix ==
    <<"s", "c", "r", "i", "p", "t", " ", "s", "u", "c", "c", "e", "e", "d",
      "e", "d", ":", " ", "r", "e", "s", "u", "l", "t", " ", "w", "a", "s",
      " ", "[">>

UiPrint(text) == [cmd |-> "ui_print", text |-> text]
LogErrorLine(n) == [cmd |-> "log error", n |-> n]
LogCauseLine(n) == [cmd |-> "log cause", n |-> n]
RetryUpdateLine == [cmd |-> "retry_update"]

-----------------------------------------------------------------------------
(* Inputs *)

Versions == {<< >>, <<"1">>, <<"2">>, <<"3">>, <<"0">>, <<"4">>, <<"x">>,
             <<"1", "2">>, <<"3", "x">>}

Argv4s == {"retry", "retry2"}
NoArg == "(absent)"

Signals == {"SIGABRT", "SIGSEGV"}


\* the lines abort messages are made of
LineE30 ==
    <<"E", "3", "0", ":", " ", "u", "n", "s", "u", "p", "p", "o", "r", "t",
      "e", "d", " ", "d", "e", "v", "i", "c", "e">>
LineE40 == <<"E", "4", "0", ":", " ", "i", "g", "n", "o", "r", "e", "d">>
LinePlain == <<"o", "o", "p", "s">>
LineEmpty == << >>
LineENoDigits == <<"E", "x", "y">>
LineENoColon == <<"E", "7">>
LineESigned == <<"E", " ", "-", "1", ":", " ", "x">>

Lines == {LineE30, LineE40, LinePlain, LineEmpty, LineENoDigits,
          LineENoColon, LineESigned}

RECURSIVE Join(_)
\* the lines of ls joined by newlines
Join(ls) ==
    IF Len(ls) = 1 THEN ls[1] ELSE ls[1] \o <<NL>> \o Join(Tail(ls))

\* abort messages: the empty one and every message of 1..MaxLines lines
Messages ==
    {<< >>} \cup
    UNION {{Join(ls) : ls \in [1..n -> Lines]} : n \in 1..MaxLines}

\* result strings; an edify string may hold a newline
Results == {<<"O", "K">>, << >>, <<"O", "K", NL>>}

CauseCodes == {kNoCause, kArgsParsingFailure, kPatchApplicationFailure,
               kEioFailure}

-----------------------------------------------------------------------------
(* Library functions main() relies on *)

RECURSIVE SplitFrom(_, _, _)
\* android::base::Split(s, "\n"): the pieces between newlines, empty pieces
\* included; cur is the piece being read from position i
SplitFrom(s, i, cur) ==
    IF i > Len(s) THEN <<cur>>
    ELSE IF s[i] = NL THEN <<cur>> \o SplitFrom(s, i + 1, << >>)
    ELSE SplitFrom(s, i + 1, Append(cur, s[i]))

Split(s) == SplitFrom(s, 1, << >>)

Whitespace == {" ", "\t"}

RECURSIVE SkipSpace(_, _)
\* index of the first character of s at or after i that is not white space
SkipSpace(s, i) ==
    IF CharAt(s, i) \in Whitespace THEN SkipSpace(s, i + 1) ELSE i

\* sscanf(line, "E%d: ", &n): [ret |-> return value, val |-> value stored].
\* The literal E must match; %d skips white space, takes an optional sign and
\* the digits that follow.  The return value counts the conversions stored:
\* the literal ": " after %d is matched after the store and does not change it.
Sscanf(line) ==
    IF CharAt(line, 0) = NUL THEN [ret |-> -1, val |-> 0]
    ELSE IF CharAt(line, 0) # "E" THEN [ret |-> 0, val |-> 0]
    ELSE LET i == SkipSpace(line, 1)
             signed == CharAt(line, i) \in {"+", "-"}
             j == IF signed THEN i + 1 ELSE i
             magnitude == Atoi(line, j, 0)
         IN  IF CharAt(line, i) = NUL THEN [ret |-> -1, val |-> 0]
             ELSE IF CharAt(line, j) \notin Digits THEN [ret |-> 0, val |-> 0]
             ELSE [ret |-> 1,
                   val |-> IF CharAt(line, i) = "-" THEN -magnitude
                           ELSE magnitude]

-----------------------------------------------------------------------------
(* The initial state: the process has been started with some command line *)

\* updater_info before main() fills it in
NoInfo == [package_zip |-> "null", version |-> 0]
\* a State as its constructor leaves it
NewState == [errmsg |-> << >>, error_code |-> kNoError,
             cause_code |-> kNoCause, is_retry |-> FALSE]

Init ==
    /\ argc \in 1..MaxArgc
    /\ version \in IF argc >= 2 THEN Versions ELSE {<< >>}
    /\ arg4 \in IF argc >= 5 THEN Argv4s ELSE {NoArg}
    /\ pc = "argc"
    /\ cmd_pipe = "unset"
    /\ chan = << >>
    /\ calls = << >>
    /\ map = "empty"
    /\ za = "unset"
    /\ open_err = 0 /\ find_err = 0 /\ extract_err = 0
    /\ error = 0 /\ error_count = 0
    /\ registry = << >>
    /\ sehandle = "unset"
    /\ updater_info = NoInfo
    /\ state = NewState
    /\ status = FALSE
    /\ result = << >>
    /\ exit_code = NoExit
    /\ signal = "none"

-----------------------------------------------------------------------------
(* Pieces shared by the steps of main() *)

\* CloseArchive(handle), made after the calls cs
CloseArchive(cs) == Append(cs, "CloseArchive")

\* ~MemMapping(): a mapping that was made is released, once
ReleasedMap(m) == IF m = "mapped" THEN "released" ELSE m

\* mutant: the process ends without the destructors of main()'s locals
ReturnWithoutDestructors(code, cs) ==
    /\ exit_code' = code
    /\ pc' = "done"
    /\ map' = map
    /\ calls' = cs

\* `return code' from main(): `map' goes out of scope and its destructor runs
Return(code, cs) ==
    /\ exit_code' = code
    /\ pc' = "done"
    /\ map' = ReleasedMap(map)
    /\ calls' = IF ReleasedMap(map) # map THEN Append(cs, "munmap") ELSE cs

\* the process is killed by signal sig: nothing runs after it
Crash(sig) == signal' = sig /\ pc' = "killed"

\* fprintf(cmd_pipe, ...) of one line
Write(line) == chan' = Append(chan, line)

-----------------------------------------------------------------------------
(* The steps of main() *)

\* mutant: only too few arguments are rejected
BadArgcTooFew(n) == n < 4

\* the argument-count test of main()
BadArgc(n) == n # 4 /\ n # 5

\* if (argc != 4 && argc != 5) return 1;
CheckArgc ==
    /\ pc = "argc"
    /\ IF BadArgc(argc)
       THEN Return(1, calls)
       ELSE pc' = "version" /\ UNCHANGED <<exit_code, map, calls>>
    /\ UNCHANGED <<argc, version, arg4, cmd_pipe, chan, za, open_err,
                   find_err, extract_err, error, error_count, registry,
                   sehandle, updater_info, state, status, result, signal>>

\* mutant: characters after the first are not looked at
VersionRejectedFirstOnly(v) ==
    CharAt(v, 0) # "1" /\ CharAt(v, 0) # "2" /\ CharAt(v, 0) # "3"

\* the version test of main()
VersionRejected(v) ==
    \/ (CharAt(v, 0) # "1" /\ CharAt(v, 0) # "2" /\ CharAt(v, 0) # "3")
    \/ CharAt(v, 1) # NUL

CheckVersion ==
    /\ pc = "version"
    /\ IF VersionRejected(version)
       THEN Return(2, calls)
       ELSE pc' = "fdopen" /\ UNCHANGED <<exit_code, map, calls>>
    /\ UNCHANGED <<argc, version, arg4, cmd_pipe, chan, za, open_err,
                   find_err, extract_err, error, error_count, registry,
                   sehandle, updater_info, state, status, result, signal>>

\* cmd_pipe = fdopen(fd, "wb"); setlinebuf(cmd_pipe);
\* fdopen returns NULL for a descriptor that is not open for writing; the
\* result is not tested, and setlinebuf(NULL) is undefined: the C library
\* dereferences the stream (SIGSEGV) or detects the null stream and aborts
\* (SIGABRT).
OpenCmdPipe ==
    /\ pc = "fdopen"
    /\ \E opened \in BOOLEAN :
         /\ cmd_pipe' = IF opened THEN "open" ELSE "null"
         /\ IF opened
            THEN /\ calls' = calls \o <<"fdopen", "setlinebuf">>
                 /\ pc' = "map"
                 /\ UNCHANGED signal
            ELSE /\ calls' = calls \o <<"fdopen", "setlinebuf">>
                 /\ \E sig \in Signals : Crash(sig)
    /\ UNCHANGED <<argc, version, arg4, chan, map, za, open_err, find_err,
                   extract_err, error, error_count, registry, sehandle,
                   updater_info, state, status, result, exit_code>>

\* if (!map.MapFile(package_filename)) return 3;
MapPackage ==
    /\ pc = "map"
    /\ \E mapped \in BOOLEAN :
         IF mapped
         THEN /\ map' = "mapped"
              /\ calls' = Append(calls, "MapFile")
              /\ pc' = "open"
              /\ UNCHANGED exit_code
         ELSE Return(3, Append(calls, "MapFile"))
    /\ UNCHANGED <<argc, version, arg4, cmd_pipe, chan, za, open_err,
                   find_err, extract_err, error, error_count, registry,
                   sehandle, updater_info, state, status, result, signal>>

\* open_err = OpenArchiveFromMemory(map.addr, map.length, argv[3], &za);
\* the handle is allocated and stored in za whether or not the open succeeds
OpenArchive ==
    /\ pc = "open"
    /\ \E err \in {0, -1} :
         /\ open_err' = err
         /\ IF err # 0
            THEN /\ za' = "closed"
                 /\ Return(3, CloseArchive(Append(calls, "OpenArchiveFromMemory")))
            ELSE /\ za' = "open"
                 /\ calls' = Append(calls, "OpenArchiveFromMemory")
                 /\ pc' = "find"
                 /\ UNCHANGED <<exit_code, map>>
    /\ UNCHANGED <<argc, version, arg4, cmd_pipe, chan, find_err,
                   extract_err, error, error_count, registry, sehandle,
                   updater_info, state, status, result, signal>>

\* find_err = FindEntry(za, script_name, &script_entry);
FindScript ==
    /\ pc = "find"
    /\ \E err \in {0, -1} :
         /\ find_err' = err
         /\ IF err # 0
            THEN /\ za' = "closed"
                 /\ Return(4, CloseArchive(Append(calls, "FindEntry")))
            ELSE /\ calls' = Append(calls, "FindEntry")
                 /\ pc' = "extract"
                 /\ UNCHANGED <<exit_code, map, za>>
    /\ UNCHANGED <<argc, version, arg4, cmd_pipe, chan, open_err,
                   extract_err, error, error_count, registry, sehandle,
                   updater_info, state, status, result, signal>>

\* extract_err = ExtractToMemory(za, &script_entry, ...);
ExtractScript ==
    /\ pc = "extract"
    /\ \E err \in {0, -1} :
         /\ extract_err' = err
         /\ IF err # 0
            THEN /\ za' = "closed"
                 /\ Return(5, CloseArchive(Append(calls, "ExtractToMemory")))
            ELSE /\ calls' = Append(calls, "ExtractToMemory")
                 /\ pc' = "register"
                 /\ UNCHANGED <<exit_code, map, za>>
    /\ UNCHANGED <<argc, version, arg4, cmd_pipe, chan, open_err, find_err,
                   error, error_count, registry, sehandle, updater_info,
                   state, status, result, signal>>

\* mutant: the device extensions are not registered
RegistrationsWithoutDevice ==
    <<"RegisterBuiltins", "RegisterFsUpdaterFunctions",
      "RegisterInstallFunctions", "RegisterBlockImageFunctions",
      "RegisterDynamicPartitionsFunctions">>

\* the registration calls of main(), in order
Registrations ==
    <<"RegisterBuiltins", "RegisterFsUpdaterFunctions",
      "RegisterInstallFunctions", "RegisterBlockImageFunctions",
      "RegisterDynamicPartitionsFunctions", "RegisterDeviceExtensions">>

\* the six Register...() calls
RegisterFunctions ==
    /\ pc = "register"
    /\ registry' = registry \o Registrations
    /\ pc' = "parse"
    /\ UNCHANGED <<argc, version, arg4, cmd_pipe, chan, calls, map, za,
                   open_err, find_err, extract_err, error, error_count,
                   sehandle, updater_info, state, status, result, exit_code,
                   signal>>

\* mutant: both results must report errors for the parse to count as failed
ParseFailedBoth(err, cnt) == err # 0 /\ cnt > 0

\* the test made on ParseString's results
ParseFailed(err, cnt) == err # 0 \/ cnt > 0

\* mutant: the parse errors are also reported on the command pipe
ParseScriptReports ==
    /\ pc = "parse"
    /\ \E err \in {0, 1}, cnt \in 0..MaxParseErrors :
         /\ error' = err
         /\ error_count' = cnt
         /\ IF ParseFailed(err, cnt)
            THEN /\ za' = "closed"
                 /\ Write(UiPrint(<<"p", "a", "r", "s", "e", " ", "e", "r",
                                    "r", "o", "r", "s">>))
                 /\ Return(6, CloseArchive(Append(calls, "ParseString")))
            ELSE /\ calls' = Append(calls, "ParseString")
                 /\ pc' = "sehandle"
                 /\ UNCHANGED <<exit_code, map, za, chan>>
    /\ UNCHANGED <<argc, version, arg4, cmd_pipe, open_err, find_err,
                   extract_err, registry, sehandle, updater_info, state,
                   status, result, signal>>

\* error = ParseString(script, &root, &error_count);
\* if (error != 0 || error_count > 0) { CloseArchive(za); return 6; }
ParseScript ==
    /\ pc = "parse"
    /\ \E err \in {0, 1}, cnt \in 0..MaxParseErrors :
         /\ error' = err
         /\ error_count' = cnt
         /\ IF ParseFailed(err, cnt)
            THEN /\ za' = "closed"
                 /\ Return(6, CloseArchive(Append(calls, "ParseString")))
            ELSE /\ calls' = Append(calls, "ParseString")
                 /\ pc' = "sehandle"
                 /\ UNCHANGED <<exit_code, map, za>>
    /\ UNCHANGED <<argc, version, arg4, cmd_pipe, chan, open_err, find_err,
                   extract_err, registry, sehandle, updater_info, state,
                   status, result, signal>>

\* mutant: a missing handle is passed over in silence
SehandleLinesSilent(h) == << >>

\* if (!sehandle) fprintf(cmd_pipe, "ui_print Warning: No file_contexts\n");
SehandleLines(h) ==
    IF h = "null" THEN <<UiPrint(NoFileContextsText)>> ELSE << >>

\* sehandle = selinux_android_file_context_handle();
\* if (!sehandle) fprintf(cmd_pipe, "ui_print Warning: No file_contexts\n");
SetSehandle ==
    /\ pc = "sehandle"
    /\ \E h \in {"handle", "null"} :
         /\ sehandle' = h
         /\ chan' = chan \o SehandleLines(h)
    /\ pc' = "state"
    /\ UNCHANGED <<argc, version, arg4, cmd_pipe, calls, map, za, open_err,
                   find_err, extract_err, error, error_count, registry,
                   updater_info, state, status, result, exit_code, signal>>

\* mutant: any fifth argument counts as the retry token
IsRetryAnyFifth(n, a) == n = 5

\* if (argc == 5) { if (strcmp(argv[4], "retry") == 0) state.is_retry = true; }
IsRetry(n, a) == n = 5 /\ a = "retry"

\* updater_info is filled in, State state(script, &updater_info) is built
\* and argv[4] is compared with "retry"
MakeState ==
    /\ pc = "state"
    /\ updater_info' = [package_zip |-> "za", version |-> Atoi(version, 0, 0)]
    /\ state' = [NewState EXCEPT !.is_retry = IsRetry(argc, arg4)]
    /\ pc' = "evaluate"
    /\ UNCHANGED <<argc, version, arg4, cmd_pipe, chan, calls, map, za,
                   open_err, find_err, extract_err, error, error_count,
                   registry, sehandle, status, result, exit_code, signal>>


\* What Evaluate(&state, root, &result) can leave behind, given the state st
\* it is handed: on success a result string; on failure an abort message
\* (possibly empty) and a cause code (possibly kNoCause) in the state.  The
\* evaluator does not write error_code, and it does not touch updater_info.
EvaluateOutcomes(st) ==
    {[status |-> TRUE, result |-> r, state |-> st] : r \in Results}
    \cup
    {[status |-> FALSE, result |-> << >>,
      state |-> [st EXCEPT !.errmsg = msg, !.cause_code = cause]] :
        msg \in Messages, cause \in CauseCodes}

\* status = Evaluate(&state, root, &result);
EvaluateScript ==
    /\ pc = "evaluate"
    /\ calls' = Append(calls, "Evaluate")
    /\ \E out \in EvaluateOutcomes(state) :
         /\ status' = out.status
         /\ result' = out.result
         /\ state' = out.state
         /\ pc' = IF out.status THEN "succeeded" ELSE "aborted"
    /\ UNCHANGED <<argc, version, arg4, cmd_pipe, chan, map, za, open_err,
                   find_err, extract_err, error, error_count, registry,
                   sehandle, updater_info, exit_code, signal>>

\* the body of the loop over the lines of errmsg: the error code after `line'
ScanLine(line, code) ==
    IF line # << >> /\ line[1] = "E"
    THEN IF Sscanf(line).ret # 1 THEN code ELSE Sscanf(line).val
    ELSE code

RECURSIVE ScanLinesFirstWins(_, _, _)
\* mutant: the scan stops at the first line that carries an error code
ScanLinesFirstWins(lines, i, code) ==
    IF i > Len(lines) THEN code
    ELSE IF ScanLine(lines[i], code) # code THEN ScanLine(lines[i], code)
    ELSE ScanLinesFirstWins(lines, i + 1, code)

RECURSIVE ScanLines(_, _, _)
\* the error code after the lines from position i on, in order
ScanLines(lines, i, code) ==
    IF i > Len(lines) THEN code
    ELSE ScanLines(lines, i + 1, ScanLine(lines[i], code))

\* mutant: the empty message is split and printed like any other
AbortLinesNoEmptyCase(msg) ==
    [i \in 1..Len(Split(msg)) |-> UiPrint(Split(msg)[i])]

\* the ui_print lines written for abort message msg
AbortLines(msg) ==
    IF msg = << >>
    THEN <<UiPrint(NoMessageText)>>
    ELSE [i \in 1..Len(Split(msg)) |-> UiPrint(Split(msg)[i])]

\* if (state.errmsg.empty()) { one generic line } else { every line scanned
\* for an error code and written as ui_print }
ReportAbort ==
    /\ pc = "aborted"
    /\ chan' = chan \o AbortLines(state.errmsg)
    /\ IF state.errmsg = << >>
       THEN UNCHANGED state
       ELSE state' = [state EXCEPT !.error_code =
                         ScanLines(Split(state.errmsg), 1, state.error_code)]
    /\ pc' = "log_error"
    /\ UNCHANGED <<argc, version, arg4, cmd_pipe, calls, map, za, open_err,
                   find_err, extract_err, error, error_count, registry,
                   sehandle, updater_info, status, result, exit_code, signal>>

\* mutant: the error code is reported as it stands
FinalErrorCodeAsIs(code) == code

\* the error code reported: kScriptExecutionFailure unless one has been set
FinalErrorCode(code) ==
    IF code = kNoError THEN kScriptExecutionFailure ELSE code

\* if (state.error_code == kNoError) state.error_code = kScriptExecutionFailure;
\* fprintf(cmd_pipe, "log error: %d\n", state.error_code);
LogError ==
    /\ pc = "log_error"
    /\ state' = [state EXCEPT !.error_code = FinalErrorCode(state.error_code)]
    /\ Write(LogErrorLine(FinalErrorCode(state.error_code)))
    /\ pc' = "log_cause"
    /\ UNCHANGED <<argc, version, arg4, cmd_pipe, calls, map, za, open_err,
                   find_err, extract_err, error, error_count, registry,
                   sehandle, updater_info, status, result, exit_code, signal>>

\* mutant: the retry request is written ahead of the cause
CauseLinesRetryFirst(cause) ==
    IF cause # kNoCause
    THEN (IF cause = kPatchApplicationFailure THEN <<RetryUpdateLine>>
          ELSE IF cause = kEioFailure THEN <<RetryUpdateLine>>
          ELSE << >>) \o <<LogCauseLine(cause)>>
    ELSE << >>

\* mutant: the cause is logged whether or not one has been set
CauseLinesAlways(cause) ==
    <<LogCauseLine(cause)>> \o
    (IF cause = kPatchApplicationFailure THEN <<RetryUpdateLine>>
     ELSE IF cause = kEioFailure THEN <<RetryUpdateLine>>
     ELSE << >>)

\* mutant: the EIO cause no longer asks for a retry
CauseLinesNoEio(cause) ==
    IF cause # kNoCause
    THEN <<LogCauseLine(cause)>> \o
         (IF cause = kPatchApplicationFailure THEN <<RetryUpdateLine>>
          ELSE << >>)
    ELSE << >>

\* the lines written for cause code `cause'
CauseLines(cause) ==
    IF cause # kNoCause
    THEN <<LogCauseLine(cause)>> \o
         (IF cause = kPatchApplicationFailure THEN <<RetryUpdateLine>>
          ELSE IF cause = kEioFailure THEN <<RetryUpdateLine>>
          ELSE << >>)
    ELSE << >>

LogCause ==
    /\ pc = "log_cause"
    /\ chan' = chan \o CauseLines(state.cause_code)
    /\ pc' = "close_failed"
    /\ UNCHANGED <<argc, version, arg4, cmd_pipe, calls, map, za, open_err,
                   find_err, extract_err, error, error_count, registry,
                   sehandle, updater_info, state, status, result, exit_code,
                   signal>>

\* mutant: the final close is left out
ClosePackageZipLeak(cs) == cs

\* if (updater_info.package_zip) CloseArchive(updater_info.package_zip);
ClosePackageZip(cs) ==
    IF updater_info.package_zip # "null" THEN CloseArchive(cs) ELSE cs

\* the end of the failure branch: close the package and return 7
CloseAndFail ==
    /\ pc = "close_failed"
    /\ za' = IF updater_info.package_zip # "null" THEN "closed" ELSE za
    /\ Return(7, ClosePackageZip(calls))
    /\ UNCHANGED <<argc, version, arg4, cmd_pipe, chan, open_err, find_err,
                   extract_err, error, error_count, registry, sehandle,
                   updater_info, state, status, result, signal>>

\* fprintf(cmd_pipe, "ui_print script succeeded: result was [%s]\n", ...);
ReportSuccess ==
    /\ pc = "succeeded"
    /\ Write(UiPrint(SucceededPrefix \o result \o <<"]">>))
    /\ pc' = "close_succeeded"
    /\ UNCHANGED <<argc, version, arg4, cmd_pipe, calls, map, za, open_err,
                   find_err, extract_err, error, error_count, registry,
                   sehandle, updater_info, state, status, result, exit_code,
                   signal>>

\* the end of main(): close the package and return 0
CloseAndSucceed ==
    /\ pc = "close_succeeded"
    /\ za' = IF updater_info.package_zip # "null" THEN "closed" ELSE za
    /\ Return(0, ClosePackageZip(calls))
    /\ UNCHANGED <<argc, version, arg4, cmd_pipe, chan, open_err, find_err,
                   extract_err, error, error_count, registry, sehandle,
                   updater_info, state, status, result, signal>>

Next ==
    \/ CheckArgc
    \/ CheckVersion
    \/ OpenCmdPipe
    \/ MapPackage
    \/ OpenArchive
    \/ FindScript
    \/ ExtractScript
    \/ RegisterFunctions
    \/ ParseScript
    \/ SetSehandle
    \/ MakeState
    \/ EvaluateScript
    \/ ReportAbort
    \/ LogError
    \/ LogCause
    \/ CloseAndFail
    \/ ReportSuccess
    \/ CloseAndSucceed

Spec == Init /\ [][Next]_vars

-----------------------------------------------------------------------------
(* The command pipe as the parent reads it: newline-terminated lines *)

\* the lines one fprintf makes: text with newlines inside a ui_print ends the
\* ui_print line at the first newline and continues on lines of its own
WireOf(l) ==
    IF l.cmd = "ui_print"
    THEN <<UiPrint(Split(l.text)[1])>> \o
         [i \in 1..(Len(Split(l.text)) - 1) |->
             [cmd |-> "(text)", text |-> Split(l.text)[i + 1]]]
    ELSE <<l>>

RECURSIVE Wire(_)
\* the lines of the writes in seq, in order
Wire(seq) == IF seq = << >> THEN << >> ELSE WireOf(Head(seq)) \o Wire(Tail(seq))

-----------------------------------------------------------------------------
(* Properties *)

\* number of lines on the command pipe written with command c
CountCmd(c) == Cardinality({i \in 1..Len(chan) : chan[i].cmd = c})

\* the lines of seq written with command c, in order
LinesOf(seq, c) == LET IsCmd(l) == l.cmd = c IN SelectSeq(seq, IsCmd)

Exited == pc = "done"
EvaluationFailed == Called("Evaluate") /\ ~status
\* the lines written after Evaluate returned: the only line that can precede
\* them is the file_contexts warning
ClassifierLines ==
    SubSeq(chan, IF sehandle = "null" THEN 2 ELSE 1, Len(chan))

\* C1: when main() has returned, CloseArchive has been called exactly once if
\* OpenArchiveFromMemory was called (whatever it returned) and never if it was
\* not; at no point has the archive been closed twice.
ArchiveClosedExactlyOnce ==
    /\ Count(calls, "CloseArchive") <= 1
    /\ Called("CloseArchive") => Called("OpenArchiveFromMemory")
    /\ Exited =>
         /\ Called("OpenArchiveFromMemory") =>
               Count(calls, "CloseArchive") = 1 /\ za = "closed"
         /\ ~Called("OpenArchiveFromMemory") =>
               Count(calls, "CloseArchive") = 0 /\ za = "unset"
         /\ exit_code \in {0, 4, 5, 6, 7} => Called("OpenArchiveFromMemory")
         /\ exit_code \in {1, 2} => ~Called("OpenArchiveFromMemory")

\* C1 witness: the evaluation was aborted and main() returned 7 with the
\* archive closed once
ArchiveClosedAfterAbort ==
    /\ Exited /\ exit_code = 7
    /\ Count(calls, "CloseArchive") = 1

\* C2: the value main() returns names the first stage that failed, in the
\* order argument count, version, map, open, find, extract, parse, evaluate;
\* it is 0 exactly when every stage ran and succeeded.
VersionSupported == version \in {<<"1">>, <<"2">>, <<"3">>}
FirstFailure ==
    IF argc \notin {4, 5} THEN 1
    ELSE IF ~VersionSupported THEN 2
    ELSE IF map # "released" THEN 3
    ELSE IF open_err # 0 THEN 3
    ELSE IF find_err # 0 THEN 4
    ELSE IF extract_err # 0 THEN 5
    ELSE IF error # 0 \/ error_count > 0 THEN 6
    ELSE IF ~status THEN 7
    ELSE 0
EveryStageSucceeded ==
    /\ argc \in {4, 5} /\ VersionSupported
    /\ Called("MapFile") /\ map = "released"
    /\ Called("OpenArchiveFromMemory") /\ open_err = 0
    /\ Called("FindEntry") /\ find_err = 0
    /\ Called("ExtractToMemory") /\ extract_err = 0
    /\ Called("ParseString") /\ error = 0 /\ error_count = 0
    /\ Called("Evaluate") /\ status
ExitCodeIsFirstFailure ==
    Exited =>
      /\ exit_code = FirstFailure
      /\ exit_code = 0 <=> EveryStageSucceeded
      /\ exit_code = 7 => Called("Evaluate")
      /\ exit_code = 6 => Called("ParseString") /\ ~Called("Evaluate")
      /\ exit_code = 5 => Called("ExtractToMemory") /\ ~Called("ParseString")
      /\ exit_code = 4 => Called("FindEntry") /\ ~Called("ExtractToMemory")
      /\ exit_code = 3 => Called("MapFile") /\ ~Called("FindEntry")
      /\ exit_code \in {1, 2} => calls = << >>

\* C2 witness: the parser returned status 0 but counted an error, and main()
\* returned 6
ParseErrorCountExit ==
    Exited /\ exit_code = 6 /\ error = 0 /\ error_count > 0

\* C3: a retry_update line is on the command pipe of a finished run exactly
\* when the evaluation failed with cause code kPatchApplicationFailure or
\* kEioFailure, and there is never more than one.
RetryCauses == {kPatchApplicationFailure, kEioFailure}
RetryOnlyForRetryCauses ==
    /\ CountCmd("retry_update") <= 1
    /\ CountCmd("retry_update") = 1 =>
          EvaluationFailed /\ state.cause_code \in RetryCauses
    /\ Exited =>
          (CountCmd("retry_update") = 1 <=>
             (EvaluationFailed /\ state.cause_code \in RetryCauses))

\* C3 witness: a run aborted with the EIO cause has finished with one
\* retry_update line
RetryAfterEio ==
    /\ Exited /\ EvaluationFailed /\ state.cause_code = kEioFailure
    /\ CountCmd("retry_update") = 1

\* C4: a finished run whose evaluation failed has exactly one `log error'
\* line; its number is never kNoError, and it is kScriptExecutionFailure
\* when the scan of the abort message left the error code at kNoError.
ScannedErrorCode ==
    IF state.errmsg = << >> THEN kNoError
    ELSE ScanLines(Split(state.errmsg), 1, kNoError)
OneConcreteLogError ==
    /\ CountCmd("log error") <= 1
    /\ \A i \in 1..Len(chan) :
          chan[i].cmd = "log error" => chan[i].n # kNoError
    /\ (Exited /\ EvaluationFailed) =>
          /\ CountCmd("log error") = 1
          /\ ScannedErrorCode = kNoError =>
                LinesOf(chan, "log error") = <<LogErrorLine(kScriptExecutionFailure)>>
          /\ ScannedErrorCode # kNoError =>
                LinesOf(chan, "log error") = <<LogErrorLine(ScannedErrorCode)>>

\* C4 witness: the only line of the abort message scans as -1, the value of
\* kNoError, and the run has reported kScriptExecutionFailure
ForcedAfterScanOfNoError ==
    /\ Exited /\ EvaluationFailed
    /\ state.errmsg = LineESigned
    /\ LinesOf(chan, "log error") = <<LogErrorLine(kScriptExecutionFailure)>>

\* the abort message "E30: unsupported device\nE40: ignored"
MessageE30E40 == LineE30 \o <<NL>> \o LineE40
AfterReportAbort == pc \in {"log_error", "log_cause", "close_failed", "done"}

\* C5 as stated: after the message "E30: unsupported device\nE40: ignored"
\* the error code is 30 and the two lines have been written as ui_print lines
\* in message order.
FirstCodeOfE30E40 ==
    (EvaluationFailed /\ AfterReportAbort /\ state.errmsg = MessageE30E40) =>
       /\ state.error_code = 30
       /\ LinesOf(ClassifierLines, "ui_print") =
             <<UiPrint(LineE30), UiPrint(LineE40)>>

\* C5 amended: after the message "E30: unsupported device\nE40: ignored" the
\* error code is 40, the code of the last line, and the two lines have been
\* written as ui_print lines in message order.
LastCodeOfE30E40 ==
    (EvaluationFailed /\ AfterReportAbort /\ state.errmsg = MessageE30E40) =>
       /\ state.error_code = 40
       /\ LinesOf(ClassifierLines, "ui_print") =
             <<UiPrint(LineE30), UiPrint(LineE40)>>

\* C5 witness: the run aborted with that message has finished after
\* reporting error 40
ReportedE30E40 ==
    /\ Exited /\ EvaluationFailed /\ state.errmsg = MessageE30E40
    /\ LinesOf(chan, "log error") = <<LogErrorLine(40)>>

RECURSIVE DigitsEnd(_, _)
\* index of the first character of s at or after i that is not a digit
DigitsEnd(s, i) == IF CharAt(s, i) \in Digits THEN DigitsEnd(s, i + 1) ELSE i

\* the pattern E<digits>: at the start of a line, and the number it carries
MatchesErrorPattern(line) ==
    /\ CharAt(line, 0) = "E"
    /\ CharAt(line, 1) \in Digits
    /\ CharAt(line, DigitsEnd(line, 1)) = ":"
    /\ CharAt(line, DigitsEnd(line, 1) + 1) = " "
PatternNumber(line) == Atoi(line, 1, 0)

LastPatternCode(lines, code) ==
    LET matching == {i \in 1..Len(lines) : MatchesErrorPattern(lines[i])}
        last == CHOOSE i \in matching : \A k \in matching : k <= i
    IN  IF matching = {} THEN code ELSE PatternNumber(lines[last])

\* C6: after the lines of a non-empty abort message have been processed, the
\* error code is the number of the last line that starts with E<digits>: ,
\* or the value the evaluator left (kNoError) when no line does.
LastMatchingLineWins ==
    (pc = "log_error" /\ state.errmsg # << >>) =>
       state.error_code = LastPatternCode(Split(state.errmsg), kNoError)

\* C7: when the evaluation failed with an empty abort message, the only
\* ui_print line written after it is the generic one, and the error code
\* logged is kScriptExecutionFailure.
EmptyMessageIsGeneric ==
    (EvaluationFailed /\ AfterReportAbort /\ state.errmsg = << >>) =>
       /\ LinesOf(ClassifierLines, "ui_print") = <<UiPrint(NoMessageText)>>
       /\ pc # "log_error" =>
             LinesOf(chan, "log error") =
                <<LogErrorLine(kScriptExecutionFailure)>>

\* C7 witness: a run aborted without a message has finished
EmptyMessageReported ==
    /\ Exited /\ EvaluationFailed /\ state.errmsg = << >>
    /\ CountCmd("log error") = 1

\* C8 as stated: when a `log cause' line has been written, the `log error'
\* line of the run does not carry kScriptExecutionFailure.
CauseImpliesSpecificError ==
    CountCmd("log cause") > 0 =>
       \A i \in 1..Len(chan) :
          chan[i].cmd = "log error" => chan[i].n # kScriptExecutionFailure

\* C8 amended: a `log cause' line carries the cause code the evaluator set,
\* which is not kNoCause, and follows the one `log error' line of the run,
\* whose number is not kNoError (it may be kScriptExecutionFailure).
CauseFollowsConcreteError ==
    \A i \in 1..Len(chan) :
       chan[i].cmd = "log cause" =>
          /\ chan[i].n = state.cause_code
          /\ chan[i].n # kNoCause
          /\ CountCmd("log error") = 1
          /\ \E j \in 1..(i - 1) :
                chan[j].cmd = "log error" /\ chan[j].n # kNoError

\* C8 witness: a cause has been logged after the generic error code
CauseWithGenericError ==
    /\ Exited
    /\ LinesOf(chan, "log cause") = <<LogCauseLine(kArgsParsingFailure)>>
    /\ LinesOf(chan, "log error") = <<LogErrorLine(kScriptExecutionFailure)>>

\* C9: once fdopen has failed, main() has returned an exit code that no other
\* path returns, without the package mapped, the script evaluated or a line
\* written.
ChannelFailureExitsDistinctly ==
    cmd_pipe = "null" =>
       /\ Exited /\ signal = "none"
       /\ exit_code \notin 0..7 /\ exit_code # NoExit
       /\ map = "empty" /\ ~Called("MapFile")
       /\ ~Called("Evaluate")
       /\ chan = << >>

\* C10: with an argument count other than 4 and 5, main() returns 1 as its
\* first step: fdopen has not been called, the package has not been mapped
\* and no archive has been opened.
BadArityExitsFirst ==
    (argc \notin {4, 5} /\ pc # "argc") =>
       /\ Exited /\ exit_code = 1
       /\ cmd_pipe = "unset" /\ ~Called("fdopen")
       /\ map = "empty" /\ ~Called("MapFile")
       /\ za = "unset" /\ ~Called("OpenArchiveFromMemory")
       /\ chan = << >>

\* C10 witness: a run with more than 5 arguments has returned 1
TooManyArgumentsExit ==
    Exited /\ argc > 5 /\ exit_code = 1


\* C11: with 4 or 5 arguments and a first argument that is not exactly "1",
\* "2" or "3", main() returns 2 right after the argument-count test: fdopen
\* has not been called and the package has not been mapped.
BadVersionExitsSecond ==
    (argc \in {4, 5} /\ version \notin {<<"1">>, <<"2">>, <<"3">>}
       /\ pc \notin {"argc", "version"}) =>
       /\ Exited /\ exit_code = 2
       /\ cmd_pipe = "unset" /\ ~Called("fdopen")
       /\ map = "empty" /\ ~Called("MapFile")
       /\ chan = << >>

\* C11 witness: a supported digit followed by another character has been
\* rejected
TrailingCharacterExit ==
    Exited /\ version = <<"3", "x">> /\ exit_code = 2

\* C12: a run whose evaluation succeeded returns 0; the last line on the
\* command pipe is `ui_print script succeeded: result was [<result>]', it is
\* the only line of that form, and no `log error', `log cause' or
\* retry_update line has been written.
EvaluationSucceeded == Called("Evaluate") /\ status
IsSuccessLine(l) ==
    /\ l.cmd = "ui_print"
    /\ Len(l.text) >= Len(SucceededPrefix)
    /\ SubSeq(l.text, 1, Len(SucceededPrefix)) = SucceededPrefix
SuccessIsOneLastLine ==
    (Exited /\ EvaluationSucceeded) =>
       /\ exit_code = 0
       /\ Wire(chan)[Len(Wire(chan))] =
             UiPrint(SucceededPrefix \o result \o <<"]">>)
       /\ Cardinality({i \in 1..Len(Wire(chan)) :
                          IsSuccessLine(Wire(chan)[i])}) = 1
       /\ \A i \in 1..Len(Wire(chan)) :
             Wire(chan)[i].cmd \notin {"log error", "log cause", "retry_update"}

\* C13: a run that returned 1, 2, 3, 4, 5 or 6 ended before Evaluate was
\* called and has written nothing to the command pipe; more generally the
\* pipe stays empty until the parse has succeeded.
SilentBeforeEvaluation ==
    /\ (Exited /\ exit_code \in 1..6) => (chan = << >> /\ ~Called("Evaluate"))
    /\ pc \in {"argc", "version", "fdopen", "map", "open", "find", "extract",
               "register", "parse", "sehandle", "killed"} => chan = << >>

\* C13 witness: the parse failed, main() returned 6 and the pipe, which had
\* been opened, is empty
SilentParseFailure ==
    Exited /\ exit_code = 6 /\ cmd_pipe = "open" /\ chan = << >>

\* what a finished run has written, from the outcomes of its stages alone
ReportedErrorCode ==
    IF ScannedErrorCode = kNoError THEN kScriptExecutionFailure
    ELSE ScannedErrorCode
ExpectedAbortLines ==
    (IF state.errmsg = << >> THEN <<UiPrint(NoMessageText)>>
     ELSE [i \in 1..Len(Split(state.errmsg)) |->
              UiPrint(Split(state.errmsg)[i])])
    \o <<LogErrorLine(ReportedErrorCode)>>
    \o (IF state.cause_code # kNoCause
        THEN <<LogCauseLine(state.cause_code)>> ELSE << >>)
    \o (IF state.cause_code \in RetryCauses
        THEN <<RetryUpdateLine>> ELSE << >>)
ExpectedPipe ==
    IF ~Called("Evaluate") THEN << >>
    ELSE (IF sehandle = "null" THEN <<UiPrint(NoFileContextsText)>>
          ELSE << >>)
         \o (IF status THEN <<UiPrint(SucceededPrefix \o result \o <<"]">>)>>
             ELSE ExpectedAbortLines)

\* C14: the state handed to the evaluator has is_retry set exactly when there
\* are 5 arguments and the fifth is "retry"; with any other fifth argument
\* that state is the one built without a fifth argument, the run goes on to
\* Evaluate, and its exit code and the lines on the pipe are those the
\* outcomes of the stages give, whatever the fifth argument.
StateBuilt ==
    pc \in {"evaluate", "succeeded", "aborted", "log_error", "log_cause",
            "close_failed", "close_succeeded"} \/ Called("Evaluate")
ParseSucceeded == Called("ParseString") /\ error = 0 /\ error_count = 0
RetryOnlyForRetryToken ==
    /\ StateBuilt => (state.is_retry <=> (argc = 5 /\ arg4 = "retry"))
    /\ (pc = "evaluate" /\ arg4 # "retry") => state = NewState
    /\ (Exited /\ ParseSucceeded) => Called("Evaluate")
    /\ Exited => (exit_code = FirstFailure /\ chan = ExpectedPipe)

\* C14 witness: a run with a fifth argument other than "retry" has been
\* evaluated without the retry flag and has ended like any aborted run
UnknownFifthArgumentEvaluated ==
    /\ Exited /\ argc = 5 /\ arg4 = "retry2"
    /\ Called("Evaluate") /\ ~state.is_retry
    /\ exit_code = 7 /\ chan = ExpectedPipe

RECURSIVE PatternScan(_, _, _)
\* the error code after the lines from position i on when exactly the lines
\* that start with E<digits>: overwrite it
PatternScan(lines, i, code) ==
    IF i > Len(lines) THEN code
    ELSE PatternScan(lines, i + 1,
                     IF MatchesErrorPattern(lines[i])
                     THEN PatternNumber(lines[i]) ELSE code)

\* C15: while a non-empty abort message is processed, a line overwrites the
\* error code if and only if it starts with E<digits>: ; every line, matching
\* or not, is written as a ui_print line and the scan goes on to the end.
OnlyPatternLinesOverwrite ==
    (pc = "log_error" /\ state.errmsg # << >>) =>
       /\ state.error_code = PatternScan(Split(state.errmsg), 1, kNoError)
       /\ LinesOf(ClassifierLines, "ui_print") =
             [i \in 1..Len(Split(state.errmsg)) |->
                 UiPrint(Split(state.errmsg)[i])]

\* C16: after a failed evaluation the lines written are, in this order and
\* with nothing after them: one ui_print per line of the abort message in
\* message order (or the one generic line), one `log error', a `log cause'
\* exactly when the cause code is not kNoCause, then retry_update if any.
MessageLineCount ==
    IF state.errmsg = << >> THEN 1 ELSE Len(Split(state.errmsg))
FailureLinesInOrder ==
    (Exited /\ EvaluationFailed) =>
       LET cl == ClassifierLines
           n == MessageLineCount
       IN  /\ Len(cl) >= n + 1
           /\ \A i \in 1..n :
                 /\ cl[i].cmd = "ui_print"
                 /\ cl[i].text = IF state.errmsg = << >> THEN NoMessageText
                                 ELSE Split(state.errmsg)[i]
           /\ cl[n + 1].cmd = "log error"
           /\ \A i \in (n + 2)..Len(cl) :
                 cl[i].cmd \in {"log cause", "retry_update"}
           /\ state.cause_code # kNoCause <=>
                 (Len(cl) >= n + 2 /\ cl[n + 2].cmd = "log cause"
                    /\ cl[n + 2].n = state.cause_code)
           /\ CountCmd("log cause") <= 1
           /\ \A i \in 1..Len(cl) :
                 cl[i].cmd = "retry_update" => (i = n + 3 /\ i = Len(cl))
           /\ Len(cl) <= n + 3

\* C16 witness: a two-line message with a retry cause has produced five lines
FiveLinesInOrder ==
    /\ Exited /\ EvaluationFailed
    /\ Len(Split(state.errmsg)) = 2
    /\ state.cause_code = kPatchApplicationFailure
    /\ Len(ClassifierLines) = 5
    /\ ClassifierLines[5] = RetryUpdateLine

\* C17: Evaluate is called at most once, and when it is called the package
\* has been mapped, the archive opened, the script found and extracted, the
\* six namespaces registered and the script parsed, all with success and in
\* that order: the registrations come after the extraction and are complete
\* before ParseString is called.
SixNamespaces ==
    {"RegisterBuiltins", "RegisterFsUpdaterFunctions",
     "RegisterInstallFunctions", "RegisterBlockImageFunctions",
     "RegisterDynamicPartitionsFunctions", "RegisterDeviceExtensions"}
Registered == {registry[i] : i \in 1..Len(registry)}
EvaluatedOnceAfterSetup ==
    /\ Count(calls, "Evaluate") <= 1
    /\ Called("Evaluate") =>
          /\ SubSeq(calls, 1, 8) =
                <<"fdopen", "setlinebuf", "MapFile", "OpenArchiveFromMemory",
                  "FindEntry", "ExtractToMemory", "ParseString", "Evaluate">>
          /\ map \in {"mapped", "released"}
          /\ open_err = 0 /\ find_err = 0 /\ extract_err = 0
          /\ error = 0 /\ error_count = 0
          /\ Registered = SixNamespaces
    /\ registry # << >> => (Called("ExtractToMemory") /\ extract_err = 0)
    /\ Called("ParseString") => Registered = SixNamespaces
    /\ pc = "register" => (registry = << >> /\ ~Called("ParseString"))

\* C17 witness: a run aborted with a retry cause has asked for a retry and
\* has ended with Evaluate called once
EvaluatedOnceDespiteRetryCause ==
    /\ Exited /\ Count(calls, "Evaluate") = 1
    /\ state.cause_code \in RetryCauses
    /\ CountCmd("retry_update") = 1

\* C18: without a file_contexts handle the run goes on: when Evaluate is
\* about to be called the pipe holds the one line `ui_print Warning: No
\* file_contexts', Evaluate is called after every successful parse, and the
\* exit code is the one the stage outcomes give, handle or not; with a handle
\* the pipe is empty when Evaluate is about to be called.
WarningOnlyWithoutHandle ==
    /\ pc \in {"state", "evaluate"} =>
          chan = IF sehandle = "null" THEN <<UiPrint(NoFileContextsText)>>
                 ELSE << >>
    /\ (Called("Evaluate") /\ sehandle = "null") =>
          chan[1] = UiPrint(NoFileContextsText)
    /\ (Called("Evaluate") /\ sehandle = "handle") =>
          \A i \in 1..Len(chan) :
             chan[i].cmd = "ui_print" => chan[i].text # NoFileContextsText
    /\ (Exited /\ ParseSucceeded) =>
          (Called("Evaluate") /\ sehandle \in {"null", "handle"})
    /\ Exited => exit_code = FirstFailure

\* C18 witness: a run without the handle has been evaluated and returned 0
\* after the warning
SucceededAfterWarning ==
    /\ Exited /\ sehandle = "null" /\ exit_code = 0
    /\ Len(chan) = 2 /\ chan[1] = UiPrint(NoFileContextsText)

\* C19: a run that mapped the package releases the mapping exactly once, as
\* its last step: after the archive has been closed, and with no FindEntry,
\* ExtractToMemory, Evaluate or CloseArchive after it; while the archive is
\* open the mapping is in place.
ArchiveCalls == {"FindEntry", "ExtractToMemory", "Evaluate", "CloseArchive"}
MappingReleasedLast ==
    /\ Count(calls, "munmap") <= 1
    /\ (Exited /\ Called("OpenArchiveFromMemory")) =>
          /\ map = "released"
          /\ Count(calls, "munmap") = 1
          /\ calls[Len(calls)] = "munmap"
          /\ calls[Len(calls) - 1] = "CloseArchive"
    /\ (Exited /\ ~Called("OpenArchiveFromMemory")) =>
          (map = "empty" /\ ~Called("munmap"))
    /\ \A i \in 1..Len(calls) :
          calls[i] = "munmap" =>
             \A j \in (i + 1)..Len(calls) : calls[j] \notin ArchiveCalls
    /\ za = "open" => map = "mapped"
    /\ Called("munmap") => Exited

\* C19 witness: the script was not found; main() closed the archive, released
\* the mapping and returned 4
ReleasedAfterScriptNotFound ==
    /\ Exited /\ exit_code = 4 /\ map = "released"
    /\ SubSeq(calls, Len(calls) - 1, Len(calls)) = <<"CloseArchive", "munmap">>

=============================================================================
